---- MODULE Spec2Model ----
(***************************************************************************)
(* The movie catalog router (src/src/routes/movies.py) and its request     *)
(* schemas (src/src/schemas/movies.py) as a state machine.                 *)
(*                                                                         *)
(* Every handler is a coroutine: each `await db....` is a suspension point *)
(* at which the handlers of other requests may run.  A handler is          *)
(* therefore one action per awaited store call; the statements between two *)
(* awaits belong to the action of the await that precedes them.            *)
(*                                                                         *)
(* The store (database package, ORM models) is not part of the sources.    *)
(* It is modelled from the specification: statements read the committed    *)
(* rows plus the rows the session itself has flushed, a commit is atomic,  *)
(* Country.code, Genre/Actor/Language.name and Movie (name, date) are      *)
(* unique, and Movie columns are mandatory.                                *)
(***************************************************************************)
EXTENDS Integers, Sequences, FiniteSets, TLC

VARIABLES
    movies,     \* committed Movie rows
    tables,     \* committed Country / Genre / Actor / Language rows, by kind
    next_id,    \* the store's identity generators, by table
    req,        \* per client: the handler in flight, its position and locals
    resp,       \* the response that went out in the last step, if any
    alone,      \* per client in flight: no other request has run beside its own
    started     \* number of requests received so far

vars == <<movies, tables, next_id, req, resp, alone, started>>

\* ------------------------------------------------------------------ bounds

MaxRequests == 3
MaxIdInput == 2
MaxPageInput == 2

\* The requests that can be in flight at once, as slots: a request takes the
\* first free slot (the slots are interchangeable).
Slots == <<"c1", "c2">>
Clients == {Slots[i] : i \in 1..Len(Slots)}
FirstFree(c, busy) ==
    \E i \in 1..Len(Slots) :
        Slots[i] = c /\ \A j \in 1..(i - 1) : Slots[j] \in busy

\* --------------------------------------------------------- optional values

None == <<>>
Some(v) == <<v>>
Value(o) == o[1]

\* ------------------------------------------------------------------- dates

Digits == {"0", "1", "2", "3", "4", "5", "6", "7", "8", "9"}

DigitValue(ch) ==
    CASE ch = "0" -> 0 [] ch = "1" -> 1 [] ch = "2" -> 2 [] ch = "3" -> 3
      [] ch = "4" -> 4 [] ch = "5" -> 5 [] ch = "6" -> 6 [] ch = "7" -> 7
      [] ch = "8" -> 8 [] ch = "9" -> 9

\* Field(pattern=r'^\d{4}-\d{2}-\d{2}$') on a string given as its characters.
MatchesDatePattern(s) ==
    /\ Len(s) = 10
    /\ \A i \in {1, 2, 3, 4, 6, 7, 9, 10} : s[i] \in Digits
    /\ s[5] = "-"
    /\ s[8] = "-"

IsLeapYear(y) == (y % 4 = 0 /\ y % 100 # 0) \/ y % 400 = 0

DaysInMonth(y, m) ==
    IF m = 2 THEN (IF IsLeapYear(y) THEN 29 ELSE 28)
    ELSE IF m \in {4, 6, 9, 11} THEN 30 ELSE 31

\* datetime.strptime(v, "%Y-%m-%d").date() on a string that matches the
\* pattern: Some(date), or None where strptime raises ValueError.
strptime(s) ==
    LET y == DigitValue(s[1]) * 1000 + DigitValue(s[2]) * 100
             + DigitValue(s[3]) * 10 + DigitValue(s[4])
        m == DigitValue(s[6]) * 10 + DigitValue(s[7])
        d == DigitValue(s[9]) * 10 + DigitValue(s[10])
    IN  IF y >= 1 /\ m \in 1..12 /\ d >= 1 /\ d <= DaysInMonth(y, m)
        THEN Some([year |-> y, month |-> m, day |-> d])
        ELSE None

\* The schemas' validate_date: the pattern constraint, then strptime.
validate_date(v) == MatchesDatePattern(v) /\ strptime(v) # None

\* ----------------------------------------------------------------- schemas

valid_statuses ==
    {"Released", "Post Production", "In Production", "Planned", "Canceled"}

validate_status(v) == v \in valid_statuses

MinScore == 0
MaxScore == 100
MaxNameLen == 255
MaxOverviewLen == 1000
MinCountryLen == 2
MaxCountryLen == 3
MinPerPage == 1
MaxPerPage == 20

ScalarFields ==
    {"name", "date", "score", "overview", "status", "budget", "revenue"}

\* Fields that are relationships of the Movie entity.
AssociationFields == {"country", "genres", "actors", "languages"}

\* MovieCreateRequest: every field constraint and both validators.
ValidCreateRequest(d) ==
    /\ Len(d.name) >= 1 /\ Len(d.name) <= MaxNameLen
    /\ validate_date(d.date)
    /\ d.score >= MinScore /\ d.score <= MaxScore
    /\ Len(d.overview) >= 1 /\ Len(d.overview) <= MaxOverviewLen
    /\ validate_status(d.status)
    /\ d.budget >= 0
    /\ d.revenue >= 0
    /\ Len(d.country) >= MinCountryLen /\ Len(d.country) <= MaxCountryLen
    /\ Len(d.genres) >= 1
    /\ Len(d.actors) >= 1
    /\ Len(d.languages) >= 1

\* One field of a MovieUpdateRequest: None passes; a value must satisfy the
\* constraint of the same field of the create request.
ValidUpdateField(f, o) ==
    \/ o = None
    \/ CASE f = "name" -> Len(Value(o)) >= 1 /\ Len(Value(o)) <= MaxNameLen
         [] f = "date" -> validate_date(Value(o))
         [] f = "score" -> Value(o) >= MinScore /\ Value(o) <= MaxScore
         [] f = "overview" ->
                Len(Value(o)) >= 1 /\ Len(Value(o)) <= MaxOverviewLen
         [] f = "status" -> validate_status(Value(o))
         [] f \in {"budget", "revenue"} -> Value(o) >= 0
         [] f = "country" ->
                Len(Value(o)) >= MinCountryLen /\ Len(Value(o)) <= MaxCountryLen
         [] f \in {"genres", "actors", "languages"} -> Len(Value(o)) >= 1

\* MovieUpdateRequest as the fields the client sent (a function from the
\* sent field names to optional values).
ValidUpdateRequest(d) == \A f \in DOMAIN d : ValidUpdateField(f, d[f])

\* Mutant: model_dump() without exclude_unset, every field with its default.
model_dump_all(d) ==
    [f \in ScalarFields \cup AssociationFields |->
        IF f \in DOMAIN d THEN d[f] ELSE None]

\* update_data.model_dump(exclude_unset=True): only the fields sent.
model_dump(d) == d

\* MovieStatusEnum(label), and the member's .value.
MovieStatusEnum(label) == [enum |-> "MovieStatusEnum", value |-> label]

\* ------------------------------------------------------------------ inputs

D1 == <<"2", "0", "2", "1", "-", "1", "0", "-", "2", "2">>
D2 == <<"2", "0", "2", "1", "-", "1", "0", "-", "2", "3">>
BadDay == <<"2", "0", "2", "1", "-", "0", "2", "-", "3", "0">>
BadPattern == <<"2", "0", "2", "1", "-", "1", "-", "0", "2", "2">>

NameInputs == {"Dune", "Heat"}
DateInputs == {D1, D2}

BaseCreate ==
    [name |-> "Dune", date |-> D1, score |-> 80, overview |-> "o1",
     status |-> "Released", budget |-> 100, revenue |-> 200,
     country |-> "US", genres |-> <<"Drama">>, actors |-> <<"Pitt">>,
     languages |-> <<"English">>]

CreateInputs ==
    {[BaseCreate EXCEPT !.name = n, !.date = d] :
        n \in NameInputs, d \in DateInputs}
    \cup {[BaseCreate EXCEPT !.name = "Heat", !.country = "UK",
                             !.genres = <<"SciFi", "Drama">>],
          [BaseCreate EXCEPT !.date = BadDay],
          [BaseCreate EXCEPT !.date = BadPattern, !.actors = <<>>]}

NewValue ==
    [name |-> Some("Heat"), date |-> Some(D2), score |-> Some(50),
     status |-> Some("Planned")]

UpdateInputs ==
    {[f \in S |-> NewValue[f]] : S \in SUBSET {"name", "date", "score"}}
    \cup {[status |-> Some("Planned"), overview |-> Some("o2"),
           budget |-> Some(1), revenue |-> Some(2)],
          [date |-> None, score |-> Some(50)],
          [score |-> Some(50), country |-> Some("UK")],
          [status |-> Some("Unknown")]}

IdInputs == 1..MaxIdInput
ListInputs ==
    {<<page, per_page>> : page \in 1..MaxPageInput, per_page \in {1, 2, MaxPerPage}}
    \cup {<<0, 1>>, <<1, MaxPerPage + 1>>}

\* ------------------------------------------------------------------- store

Kinds == {"country", "genre", "actor", "language"}
TableNames == Kinds \cup {"movie"}

\* The uniqueness constraint of a reference table: an INSERT of `key` is
\* rejected when a committed row holds it.
UniqueViolation(kind, key) == \E r \in tables[kind] : r.key = key

\* Mutant: the Movie table carries no uniqueness constraint.
MovieUniqueViolationOff(id, name, date) == FALSE

\* The uniqueness constraint on Movie (name, date), checked for the row `id`.
MovieUniqueViolation(id, name, date) ==
    \E m \in movies : m.id # id /\ m.name = name /\ m.date = date

\* Movie columns are mandatory: a row holding None in one is rejected.
NotNullViolation(values) == \E f \in DOMAIN values : values[f] = None

Min2(a, b) == IF a <= b THEN a ELSE b

\* ---------------------------------------------------------------- requests

Idle == [op |-> "none", pc |-> "idle", data |-> <<>>, loc |-> <<>>]

\* No response went out in the last step.
NoResponse ==
    [client |-> "", op |-> "none", status |-> 0, exc |-> "", data |-> <<>>,
     alone |-> FALSE, body |-> <<>>]

InFlight(c) == req[c].pc # "idle"

StoreUnchanged == UNCHANGED <<movies, tables, next_id>>

NoOthers(c) == \A e \in Clients \ {c} : ~InFlight(e)

\* A request arrives at client c.  The handler's first statement runs with
\* the arrival: nothing the handler does before it depends on the store.
Enter(c) ==
    /\ ~InFlight(c)
    /\ FirstFree(c, {d \in Clients : InFlight(d)})
    /\ started < MaxRequests
    /\ started' = started + 1

\* The request is answered in the step it arrives in.
EnterReply(c, op, data, status, exc, body) ==
    /\ resp' = [client |-> c, op |-> op, status |-> status, exc |-> exc,
                data |-> data, alone |-> NoOthers(c), body |-> body]
    /\ req' = req
    /\ alone' = [d \in Clients |-> FALSE]

\* The request is rejected by validation before the handler runs.
Reject(c, op, data) ==
    EnterReply(c, op, data, 422, "RequestValidationError", <<>>)

\* The handler suspends at its second await.
EnterSuspend(c, op, data, pc, loc) ==
    /\ req' = [req EXCEPT ![c] = [op |-> op, pc |-> pc, data |-> data, loc |-> loc]]
    /\ resp' = NoResponse
    /\ alone' = [d \in Clients |-> IF d = c THEN NoOthers(c) ELSE FALSE]

\* The handler of c returns or raises: the response goes out.
Reply(c, status, exc, body) ==
    /\ resp' = [client |-> c, op |-> req[c].op, status |-> status, exc |-> exc,
                data |-> req[c].data, alone |-> alone[c], body |-> body]
    /\ req' = [req EXCEPT ![c] = Idle]
    /\ alone' = [alone EXCEPT ![c] = FALSE]
    /\ started' = started

\* The handler of c suspends at its next await.
Suspend(c, pc, loc) ==
    /\ req' = [req EXCEPT ![c].pc = pc, ![c].loc = loc]
    /\ resp' = NoResponse
    /\ UNCHANGED <<alone, started>>

At(c, op, pc) == req[c].op = op /\ req[c].pc = pc

\* ------------------------------------------------------- GET /movies/ (list)

\* Mutant: the offset of the page after the requested one.
OffsetOfNextPage(page, per_page) == page * per_page

Offset(page, per_page) == (page - 1) * per_page

TotalPages(total_items, per_page) == (total_items + per_page - 1) \div per_page

\* The page is refused before it is fetched.
PageExceedsMaximum(page, total_pages, total_items) ==
    page > total_pages /\ total_items > 0

\* query validation, count query, total_pages, and the check of the page
GetMovies(c, page, per_page) ==
    /\ Enter(c)
    /\ StoreUnchanged
    /\ LET data == [page |-> page, per_page |-> per_page]
           total_items == Cardinality(movies)
           total_pages == TotalPages(total_items, per_page)
       IN  IF ~(page >= 1 /\ per_page >= MinPerPage /\ per_page <= MaxPerPage)
           THEN Reject(c, "list", data)
           ELSE IF PageExceedsMaximum(page, total_pages, total_items)
           THEN EnterReply(c, "list", data, 404, "HTTPException", <<>>)
           ELSE EnterSuspend(c, "list", data, "page",
                        [offset |-> Offset(page, per_page),
                         total_items |-> total_items,
                         total_pages |-> total_pages])

RECURSIVE OrderByIdDesc(_)
OrderByIdDesc(rows) ==
    IF rows = {} THEN <<>>
    ELSE LET m == CHOOSE r \in rows : \A q \in rows : q.id <= r.id
         IN  <<m>> \o OrderByIdDesc(rows \ {m})

OffsetLimit(s, offset, limit) ==
    SubSeq(s, offset + 1, Min2(offset + limit, Len(s)))

MovieListItemSchema(m) ==
    [id |-> m.id, name |-> m.name, date |-> m.date, score |-> m.score,
     overview |-> m.overview]

\* f"/theater/movies/?page={page}&per_page={per_page}"
PageLink(page, per_page) ==
    <<"/theater/movies/?page=", page, "&per_page=", per_page>>

PrevPage(page, per_page) ==
    IF page > 1 THEN PageLink(page - 1, per_page) ELSE None

\* Mutant: a next link also on the last page.
NextPageOnLast(page, per_page, total_pages) ==
    IF page <= total_pages THEN PageLink(page + 1, per_page) ELSE None

NextPage(page, per_page, total_pages) ==
    IF page < total_pages THEN PageLink(page + 1, per_page) ELSE None

\* page query, the empty-page check, the links and the response
GetMoviesPage(c) ==
    /\ At(c, "list", "page")
    /\ StoreUnchanged
    /\ LET page == req[c].data.page
           per_page == req[c].data.per_page
           loc == req[c].loc
           rows == OffsetLimit(OrderByIdDesc(movies), loc.offset, per_page)
       IN  IF rows = <<>>
           THEN Reply(c, 404, "HTTPException", <<>>)
           ELSE Reply(c, 200, "",
                   [movies |-> [i \in 1..Len(rows) |-> MovieListItemSchema(rows[i])],
                    prev_page |-> PrevPage(page, per_page),
                    next_page |-> NextPage(page, per_page, loc.total_pages),
                    total_pages |-> loc.total_pages,
                    total_items |-> loc.total_items])

\* ----------------------------------------------------- POST /movies/ (create)

\* Mutant: no except branch, the exception surfaces as a server error.
InvalidInputUnhandled(c, exc) ==
    /\ Reply(c, 500, exc, <<>>)
    /\ StoreUnchanged

\* except Exception: await db.rollback(); raise HTTPException(400).
\* The rows the session flushed are discarded with the handler's locals.
InvalidInput(c, exc) ==
    /\ Reply(c, 400, exc, <<>>)
    /\ StoreUnchanged

\* Mutant: the duplicate check compares the name alone.
ExistingMoviesByName(name, movie_date) == {m \in movies : m.name = name}

\* The rows `existing_movie_stmt` selects.
ExistingMovies(name, movie_date) ==
    {m \in movies : m.name = name /\ m.date = movie_date}

\* body validation, date parsing and the duplicate check
CreateMovie(c, movie_data) ==
    /\ Enter(c)
    /\ StoreUnchanged
    /\ IF ~ValidCreateRequest(movie_data)
       THEN Reject(c, "create", movie_data)
       ELSE LET parsed == strptime(movie_data.date)
                existing == ExistingMovies(movie_data.name, Value(parsed))
            IN  IF parsed = None
                THEN EnterReply(c, "create", movie_data, 400, "ValueError", <<>>)
                ELSE IF Cardinality(existing) > 1
                THEN EnterReply(c, "create", movie_data, 400,
                                "MultipleResultsFound", <<>>)
                ELSE IF existing # {}
                THEN EnterReply(c, "create", movie_data, 409, "HTTPException", <<>>)
                ELSE EnterSuspend(c, "create", movie_data, "select",
                      [movie_date |-> Value(parsed), kind |-> "country", i |-> 1,
                       resolved |-> [k \in Kinds |-> <<>>], created |-> {},
                       movie |-> None])

\* The codes or names a create request references, by kind, in request order.
Referenced(movie_data, kind) ==
    CASE kind = "country" -> <<movie_data.country>>
      [] kind = "genre" -> movie_data.genres
      [] kind = "actor" -> movie_data.actors
      [] kind = "language" -> movie_data.languages

NextKind(kind) ==
    CASE kind = "country" -> "genre"
      [] kind = "genre" -> "actor"
      [] kind = "actor" -> "language"

\* The row is appended to its list; the handler goes on to the next name of
\* the loop, to the next loop, or to the commit.
Resolved(c, row, created) ==
    LET loc == req[c].loc
        kind == loc.kind
        done == [loc EXCEPT !.resolved[kind] = Append(@, row),
                            !.created = created]
    IN  IF loc.i < Len(Referenced(req[c].data, kind))
        THEN Suspend(c, "select", [done EXCEPT !.i = loc.i + 1])
        ELSE IF kind = "language"
        THEN Suspend(c, "commit", done)
        ELSE Suspend(c, "select", [done EXCEPT !.kind = NextKind(kind), !.i = 1])

\* What a SELECT by key of this session sees: the committed rows and the
\* rows the session has flushed.
Visible(c, kind) ==
    tables[kind] \cup {p[2] : p \in {q \in req[c].loc.created : q[1] = kind}}

\* Mutant: the lookup never finds a row.
SelectNothing(c, kind, i) == {}

\* The rows select(Model).where(Model.<key> == value) yields for the i-th
\* code or name of the kind.
SelectByKey(c, kind, i) ==
    {r \in Visible(c, kind) : r.key = Referenced(req[c].data, kind)[i]}

\* await db.execute(stmt); scalar_one_or_none(); `if not row:`
GetOrCreateSelect(c, kind) ==
    /\ At(c, "create", "select")
    /\ req[c].loc.kind = kind
    /\ LET found == SelectByKey(c, kind, req[c].loc.i)
       IN  IF Cardinality(found) > 1
           THEN InvalidInput(c, "MultipleResultsFound")
           ELSE IF found # {}
           THEN /\ Resolved(c, CHOOSE r \in found : TRUE, req[c].loc.created)
                /\ StoreUnchanged
           ELSE /\ Suspend(c, "flush", req[c].loc)
                /\ StoreUnchanged

\* db.add(Model(key)); await db.flush(): the INSERT runs and yields the id.
GetOrCreateFlush(c, kind) ==
    /\ At(c, "create", "flush")
    /\ req[c].loc.kind = kind
    /\ LET key == Referenced(req[c].data, kind)[req[c].loc.i]
           row == [id |-> next_id[kind], key |-> key]
       IN  IF UniqueViolation(kind, key)
           THEN InvalidInput(c, "IntegrityError")
           ELSE /\ Resolved(c, row, req[c].loc.created \cup {<<kind, row>>})
                /\ next_id' = [next_id EXCEPT ![kind] = @ + 1]
                /\ UNCHANGED <<movies, tables>>

CreateCountrySelect(c) == GetOrCreateSelect(c, "country")
CreateCountryFlush(c) == GetOrCreateFlush(c, "country")
CreateGenreSelect(c) == GetOrCreateSelect(c, "genre")
CreateGenreFlush(c) == GetOrCreateFlush(c, "genre")
CreateActorSelect(c) == GetOrCreateSelect(c, "actor")
CreateActorFlush(c) == GetOrCreateFlush(c, "actor")
CreateLanguageSelect(c) == GetOrCreateSelect(c, "language")
CreateLanguageFlush(c) == GetOrCreateFlush(c, "language")

Ids(rows) == {rows[i].id : i \in 1..Len(rows)}

\* MovieModel(...) as the handler builds it.
MovieModel(id, movie_data, loc) ==
    [id |-> id, name |-> movie_data.name, date |-> loc.movie_date,
     score |-> movie_data.score, overview |-> movie_data.overview,
     status |-> MovieStatusEnum(movie_data.status),
     budget |-> movie_data.budget, revenue |-> movie_data.revenue,
     country_id |-> loc.resolved["country"][1].id,
     genres |-> Ids(loc.resolved["genre"]),
     actors |-> Ids(loc.resolved["actor"]),
     languages |-> Ids(loc.resolved["language"])]

\* db.add(movie); await db.commit(): the Movie row and its association rows
\* are inserted and the transaction, with the reference rows it flushed,
\* commits, or the store rejects it and the handler's except branch runs.
CreateMovieCommit(c) ==
    /\ At(c, "create", "commit")
    /\ LET loc == req[c].loc
           movie == MovieModel(next_id["movie"], req[c].data, loc)
       IN  IF \/ \E p \in loc.created : UniqueViolation(p[1], p[2].key)
              \/ MovieUniqueViolation(movie.id, movie.name, movie.date)
           THEN InvalidInput(c, "IntegrityError")
           ELSE /\ movies' = movies \cup {movie}
                /\ tables' = [k \in Kinds |->
                     tables[k] \cup {p[2] : p \in {q \in loc.created : q[1] = k}}]
                /\ next_id' = [next_id EXCEPT !["movie"] = @ + 1]
                /\ Suspend(c, "refresh", [loc EXCEPT !.movie = Some(movie)])

\* The committed row with this id, as a set (empty when there is none).
MovieById(movie_id) == {m \in movies : m.id = movie_id}

\* await db.refresh(movie): reloads the row; raises when the row is gone.
CreateMovieRefresh(c) ==
    /\ At(c, "create", "refresh")
    /\ LET row == MovieById(Value(req[c].loc.movie).id)
       IN  IF row = {}
           THEN InvalidInput(c, "InvalidRequestError")
           ELSE /\ Suspend(c, "load",
                      [req[c].loc EXCEPT !.movie = Some(CHOOSE m \in row : TRUE)])
                /\ StoreUnchanged

\* The detail projection of a Movie row and its related rows.
MovieDetailSchema(movie, related) ==
    [id |-> movie.id, name |-> movie.name, date |-> movie.date,
     score |-> movie.score, overview |-> movie.overview,
     status |-> movie.status.value, budget |-> movie.budget,
     revenue |-> movie.revenue,
     country |-> {[id |-> r.id, code |-> r.key, name |-> None] :
                     r \in {t \in tables["country"] : t.id = related.country_id}},
     genres |-> {[id |-> r.id, name |-> r.key] :
                     r \in {t \in tables["genre"] : t.id \in related.genres}},
     actors |-> {[id |-> r.id, name |-> r.key] :
                     r \in {t \in tables["actor"] : t.id \in related.actors}},
     languages |-> {[id |-> r.id, name |-> r.key] :
                     r \in {t \in tables["language"] : t.id \in related.languages}}]

\* await db.refresh(movie, [...relationships]) and the response
CreateMovieLoad(c) ==
    /\ At(c, "create", "load")
    /\ LET movie == Value(req[c].loc.movie)
           row == MovieById(movie.id)
       IN  IF row = {}
           THEN InvalidInput(c, "InvalidRequestError")
           ELSE /\ Reply(c, 201, "",
                      MovieDetailSchema(movie, CHOOSE m \in row : TRUE))
                /\ StoreUnchanged

\* ------------------------------------------------- GET /movies/{id}/ (read)

GetMovieById(c, movie_id) ==
    /\ Enter(c)
    /\ StoreUnchanged
    /\ LET data == [movie_id |-> movie_id]
           row == MovieById(movie_id)
       IN  IF row = {}
           THEN EnterReply(c, "read", data, 404, "HTTPException", <<>>)
           ELSE EnterReply(c, "read", data, 200, "",
                    LET m == CHOOSE m \in row : TRUE IN MovieDetailSchema(m, m))

\* ----------------------------------------------- DELETE /movies/{id}/

DeleteMovie(c, movie_id) ==
    /\ Enter(c)
    /\ StoreUnchanged
    /\ LET data == [movie_id |-> movie_id]
           row == MovieById(movie_id)
       IN  IF row = {}
           THEN EnterReply(c, "delete", data, 404, "HTTPException", <<>>)
           ELSE EnterSuspend(c, "delete", data, "commit",
                             [movie |-> CHOOSE m \in row : TRUE])

\* Mutant: the delete also removes the reference rows of the movie.
DeleteMovieCascade(c) ==
    /\ At(c, "delete", "commit")
    /\ next_id' = next_id
    /\ movies' = {m \in movies : m.id # req[c].loc.movie.id}
    /\ tables' = [tables EXCEPT !["country"] =
                     {r \in @ : r.id # req[c].loc.movie.country_id}]
    /\ Reply(c, 204, "", <<>>)

\* await db.delete(movie); await db.commit(): DELETE ... WHERE id = movie.id
\* removes the row and its association rows.
DeleteMovieCommit(c) ==
    /\ At(c, "delete", "commit")
    /\ UNCHANGED <<tables, next_id>>
    /\ movies' = {m \in movies : m.id # req[c].loc.movie.id}
    /\ Reply(c, 204, "", <<>>)

\* ------------------------------------------------ PATCH /movies/{id}/

UpdateMovie(c, movie_id, update_data) ==
    /\ Enter(c)
    /\ StoreUnchanged
    /\ LET data == [movie_id |-> movie_id, update_data |-> update_data]
           row == MovieById(movie_id)
       IN  IF ~ValidUpdateRequest(update_data)
           THEN Reject(c, "update", data)
           ELSE IF row = {}
           THEN EnterReply(c, "update", data, 404, "HTTPException", <<>>)
           ELSE EnterSuspend(c, "update", data, "commit",
                             [movie |-> CHOOSE m \in row : TRUE])

\* The value the loop assigns for one field of update_dict.
Assigned(field, value) ==
    IF field = "status" /\ value # None
    THEN Some(MovieStatusEnum(Value(value)))
    ELSE IF field = "date" /\ value # None
    THEN strptime(Value(value))
    ELSE value

\* An assignment of the loop raises: strptime rejects the date, or a raw
\* string or list is assigned to a relationship of the entity.
SetattrRaises(update_dict) ==
    \E f \in DOMAIN update_dict :
        \/ f \in AssociationFields
        \/ f = "date" /\ update_dict[f] # None /\ strptime(Value(update_dict[f])) = None

\* The columns the flush writes: the assigned attributes whose value differs
\* from the value the session loaded.
ChangedColumns(update_dict, loaded) ==
    {f \in DOMAIN update_dict \cap ScalarFields :
        Assigned(f, update_dict[f]) # Some(loaded[f])}

\* UPDATE movies SET <changed columns> WHERE id = ... on the committed row.
UpdatedRow(current, update_dict, changed) ==
    [f \in DOMAIN current |->
        IF f \in changed THEN Value(Assigned(f, update_dict[f])) ELSE current[f]]

\* the assignment loop, the commit and the response
UpdateMovieCommit(c) ==
    /\ At(c, "update", "commit")
    /\ LET loaded == req[c].loc.movie
           update_dict == model_dump(req[c].data.update_data)
           changed == ChangedColumns(update_dict, loaded)
           current == MovieById(loaded.id)
           ok == /\ Reply(c, 200, "",
                        [detail |-> "Movie updated successfully."])
                 /\ UNCHANGED <<tables, next_id>>
       IN  IF SetattrRaises(update_dict)
           THEN InvalidInput(c, "AttributeError")
           ELSE IF changed = {}
           THEN ok /\ movies' = movies
           ELSE IF current = {}
           THEN InvalidInput(c, "StaleDataError")
           ELSE IF NotNullViolation([f \in changed |-> Assigned(f, update_dict[f])])
           THEN InvalidInput(c, "IntegrityError")
           ELSE LET cur == CHOOSE m \in current : TRUE
                    new == UpdatedRow(cur, update_dict, changed)
                IN  IF MovieUniqueViolation(new.id, new.name, new.date)
                    THEN InvalidInput(c, "IntegrityError")
                    ELSE ok /\ movies' = (movies \ {cur}) \cup {new}

\* -------------------------------------------------------------- the system

Init ==
    /\ movies = {}
    /\ tables = [k \in Kinds |-> {}]
    /\ next_id = [t \in TableNames |-> 1]
    /\ req = [c \in Clients |-> Idle]
    /\ resp = NoResponse
    /\ alone = [c \in Clients |-> FALSE]
    /\ started = 0

Next ==
    \/ \E c \in Clients, q \in ListInputs : GetMovies(c, q[1], q[2])
    \/ \E c \in Clients : GetMoviesPage(c)
    \/ \E c \in Clients, movie_data \in CreateInputs : CreateMovie(c, movie_data)
    \/ \E c \in Clients : CreateCountrySelect(c)
    \/ \E c \in Clients : CreateCountryFlush(c)
    \/ \E c \in Clients : CreateGenreSelect(c)
    \/ \E c \in Clients : CreateGenreFlush(c)
    \/ \E c \in Clients : CreateActorSelect(c)
    \/ \E c \in Clients : CreateActorFlush(c)
    \/ \E c \in Clients : CreateLanguageSelect(c)
    \/ \E c \in Clients : CreateLanguageFlush(c)
    \/ \E c \in Clients : CreateMovieCommit(c)
    \/ \E c \in Clients : CreateMovieRefresh(c)
    \/ \E c \in Clients : CreateMovieLoad(c)
    \/ \E c \in Clients, movie_id \in IdInputs : GetMovieById(c, movie_id)
    \/ \E c \in Clients, movie_id \in IdInputs : DeleteMovie(c, movie_id)
    \/ \E c \in Clients : DeleteMovieCommit(c)
    \/ \E c \in Clients, movie_id \in IdInputs, update_data \in UpdateInputs :
            UpdateMovie(c, movie_id, update_data)
    \/ \E c \in Clients : UpdateMovieCommit(c)

Spec == Init /\ [][Next]_vars

\* ------------------------------------------------------------------ claims

\* The step is taken by the handler of c, which was in flight before it.
StepOf(c, op, pc) == At(c, op, pc) /\ req'[c] # req[c]

\* The step is the arrival of a request `op` at c.
Arrival(c, op) ==
    /\ started' = started + 1
    /\ ~InFlight(c)
    /\ \/ req'[c].op = op
       \/ req'[c] = req[c] /\ resp'.client = c /\ resp'.op = op

\* The input of the request that arrives in the step.
Arrived(c) == IF InFlight(c)' THEN req'[c].data ELSE resp'.data

Keys(rows) == {r.key : r \in rows}

\* C1: in every reachable state, under every interleaving of create, update
\* and delete requests, no two persisted Movie rows have the same
\* (name, date) pair.
C1_MovieNameDateUnique ==
    \A m1 \in movies : \A m2 \in movies :
        (m1.name = m2.name /\ m1.date = m2.date) => m1 = m2

\* An update that renames a movie onto the (name, date) of another was
\* refused by the store.
C1_Witness ==
    /\ resp.op = "update" /\ resp.status = 400 /\ resp.exc = "IntegrityError"
    /\ DOMAIN resp.data.update_data = {"name"}
    /\ Cardinality(movies) = 2

\* C2: a create whose (name, parsed date) equals that of a persisted Movie
\* ends with 409 and adds no row of any kind; a create with the same name
\* and a different date is not rejected as a Conflict and, when it runs with
\* no other request beside it, persists a new Movie.
C2_DuplicateCheck ==
    [][\A c \in Clients :
        /\ (Arrival(c, "create") /\ ValidCreateRequest(Arrived(c))) =>
              LET d == Arrived(c)
                  dup == \E m \in movies :
                            m.name = d.name /\ m.date = Value(strptime(d.date))
              IN  /\ dup => (resp'.client = c /\ resp'.status = 409)
                  /\ ~dup => (InFlight(c)' /\ resp'.status # 409)
        /\ (resp'.op = "create" /\ resp'.status = 409) =>
              (movies' = movies /\ tables' = tables)
        /\ (resp'.op = "create" /\ resp'.client = c /\ resp'.alone
              /\ resp'.status \notin {409, 422}) =>
              /\ resp'.status = 201
              /\ \E m \in movies' :
                    /\ m.id = resp'.body.id
                    /\ m.name = resp'.data.name
                    /\ m.date = Value(strptime(resp'.data.date))
        /\ (StepOf(c, "create", "commit") /\ InFlight(c)') =>
              \E m \in movies' :
                    /\ movies' = movies \cup {m}
                    /\ \A q \in movies : q.id # m.id
                    /\ m.name = req[c].data.name
                    /\ m.date = Value(strptime(req[c].data.date))
      ]_vars

\* A create is refused as a duplicate while a movie of the same name and
\* another date is persisted beside the one it duplicates.
C2_Witness ==
    /\ resp.op = "create" /\ resp.status = 409
    /\ \E m1 \in movies : \E m2 \in movies :
          /\ m1.name = resp.data.name /\ m2.name = resp.data.name
          /\ m1.date # m2.date

\* C3: when create requests run one at a time, a create succeeds, and its
\* commit adds exactly one Country/Genre/Actor/Language row for every
\* distinct code or name of the request that had no row, and no row for a
\* code or name that had one.
C3_GetOrCreate ==
    [][\A c \in Clients :
        /\ (req[c].op = "create" /\ alone[c] /\ req'[c] # req[c]) =>
              resp'.status # 400
        /\ (StepOf(c, "create", "commit") /\ alone[c]) =>
              \A k \in Kinds :
                 LET wanted == {Referenced(req[c].data, k)[i] :
                                   i \in 1..Len(Referenced(req[c].data, k))}
                     unseen == wanted \ Keys(tables[k])
                     added == tables'[k] \ tables[k]
                 IN  /\ tables[k] \subseteq tables'[k]
                     /\ Keys(added) = unseen
                     /\ Cardinality(added) = Cardinality(unseen)
      ]_vars

\* A second create that reuses the names of the first has succeeded and the
\* reference tables hold one row of each kind.
C3_Witness ==
    /\ resp.op = "create" /\ resp.status = 201 /\ resp.alone
    /\ Cardinality(movies) = 2
    /\ \A k \in Kinds : Cardinality(tables[k]) = 1

\* The number of persisted movies with an id above that of m.
Newer(M, m) == Cardinality({q \in M : q.id > m.id})

\* t is the ceiling of n / k.
IsCeiling(t, n, k) == t * k >= n /\ (t - 1) * k < n

\* C4: a list request that succeeds returns total_items equal to the number
\* of persisted movies (as its count query finds them), total_pages equal to
\* ceil(total_items / per_page), and as its movies exactly the slice of all
\* movies by descending id that starts at offset (page-1)*per_page and holds
\* at most per_page items.
C4_ListPage ==
    [][\A c \in Clients :
        /\ (Arrival(c, "list") /\ InFlight(c)') =>
              /\ req'[c].loc.total_items = Cardinality(movies)
              /\ IsCeiling(req'[c].loc.total_pages, Cardinality(movies),
                           req'[c].data.per_page)
        /\ (StepOf(c, "list", "page") /\ resp'.status = 200) =>
              LET page == req[c].data.page
                  per_page == req[c].data.per_page
                  body == resp'.body
                  n == Cardinality(movies)
                  first == (page - 1) * per_page
              IN  /\ page >= 1 /\ per_page \in MinPerPage..MaxPerPage
                  /\ body.total_items = req[c].loc.total_items
                  /\ IsCeiling(body.total_pages, body.total_items, per_page)
                  /\ alone[c] => body.total_items = n
                  /\ Len(body.movies) <= per_page
                  /\ Len(body.movies) = Min2(per_page, n - first)
                  /\ \A i \in 1..Len(body.movies) :
                        \E m \in movies :
                           /\ Newer(movies, m) = first + i - 1
                           /\ body.movies[i] =
                                [id |-> m.id, name |-> m.name, date |-> m.date,
                                 score |-> m.score, overview |-> m.overview]
      ]_vars

\* The second page of a two-movie catalog, one movie a page, was returned.
C4_Witness ==
    /\ resp.op = "list" /\ resp.status = 200
    /\ resp.data.page = 2 /\ resp.data.per_page = 1
    /\ resp.body.total_pages = 2
    /\ Len(resp.body.movies) = 1 /\ resp.body.movies[1].id = 1

\* The page a link names.
LinkPage(link) == link[2]
LinkPerPage(link) == link[4]

\* The page exists in a catalog of n movies.
PageExists(page, per_page, n) ==
    page >= 1 /\ per_page \in MinPerPage..MaxPerPage /\ (page - 1) * per_page < n

\* C5: with no concurrent request, a list request fails with 404 exactly
\* when page > total_pages (every page of an empty catalog included); on
\* success prev_page is non-null exactly when page > 1 and next_page exactly
\* when page < total_pages, and a returned link names a page that exists.
C5_NotFoundAndLinks ==
    (resp.op = "list" /\ resp.alone /\ resp.status # 422) =>
        LET page == resp.data.page
            per_page == resp.data.per_page
            n == Cardinality(movies)
            total_pages == CHOOSE t \in 0..n : IsCeiling(t, n, per_page)
        IN  /\ resp.status \in {200, 404}
            /\ resp.status = 404 <=> page > total_pages
            /\ n = 0 => resp.status = 404
            /\ resp.status = 200 =>
                  /\ resp.body.total_pages = total_pages
                  /\ resp.body.prev_page # None <=> page > 1
                  /\ resp.body.next_page # None <=> page < total_pages
                  /\ resp.body.prev_page # None =>
                        /\ LinkPage(resp.body.prev_page) = page - 1
                        /\ PageExists(LinkPage(resp.body.prev_page),
                                      LinkPerPage(resp.body.prev_page), n)
                  /\ resp.body.next_page # None =>
                        /\ LinkPage(resp.body.next_page) = page + 1
                        /\ PageExists(LinkPage(resp.body.next_page),
                                      LinkPerPage(resp.body.next_page), n)

\* The first of two pages was returned with a next link and no previous one.
C5_Witness ==
    /\ resp.op = "list" /\ resp.alone /\ resp.status = 200
    /\ resp.body.next_page # None /\ resp.body.prev_page = None
    /\ resp.body.total_pages = 2

\* C6: a delete of an existing movie id removes exactly that Movie, so that a
\* read of the id returns 404, leaves every other Movie row and every
\* Country/Genre/Actor/Language row in place, also a row no movie references
\* any more; a delete of an id that does not exist returns 404 and changes
\* nothing.
C6_Delete ==
    [][\A c \in Clients :
        /\ StepOf(c, "delete", "commit") =>
              /\ resp'.client = c /\ resp'.status = 204
              /\ movies' = {m \in movies : m.id # req[c].data.movie_id}
              /\ \A m \in movies' : m.id # req[c].data.movie_id
              /\ tables' = tables
        /\ Arrival(c, "delete") =>
              /\ movies' = movies /\ tables' = tables
              /\ (\A m \in movies : m.id # Arrived(c).movie_id) <=>
                    (resp'.client = c /\ resp'.status = 404)
              /\ (\E m \in movies : m.id = Arrived(c).movie_id) <=> InFlight(c)'
        /\ Arrival(c, "read") =>
              /\ movies' = movies /\ tables' = tables
              /\ resp'.status = 404 <=>
                    (\A m \in movies : m.id # Arrived(c).movie_id)
      ]_vars

\* The only movie was deleted and the rows it referenced are still there.
C6_Witness ==
    /\ resp.op = "delete" /\ resp.status = 204
    /\ movies = {}
    /\ \A k \in Kinds : tables[k] # {}

\* C7: a successful update changes only fields present in the request: every
\* field of the target Movie absent from the request keeps its value and no
\* other Movie row changes; an update that supplies only score, run with no
\* other request beside it, succeeds and changes score and nothing else.
C7_PartialUpdate ==
    [][\A c \in Clients :
        StepOf(c, "update", "commit") =>
           LET id == req[c].data.movie_id
               sent == DOMAIN req[c].data.update_data
           IN  /\ resp'.status = 200 =>
                    /\ tables' = tables
                    /\ \A m \in movies : m.id # id => m \in movies'
                    /\ \A m \in movies' : m.id # id => m \in movies
                    /\ \A m \in movies : m.id = id =>
                          \E n \in movies' :
                             /\ n.id = id
                             /\ \A f \in DOMAIN m \ sent : n[f] = m[f]
                    /\ Cardinality(movies') = Cardinality(movies)
               /\ (alone[c] /\ sent = {"score"}) =>
                    /\ resp'.status = 200
                    /\ \E n \in movies' :
                          /\ n.id = id
                          /\ n.score = Value(req[c].data.update_data["score"])
      ]_vars

\* An update that sent only score has succeeded and the score is the new one.
C7_Witness ==
    /\ resp.op = "update" /\ resp.status = 200
    /\ DOMAIN resp.data.update_data = {"score"}
    /\ \E m \in movies :
          /\ m.id = resp.data.movie_id /\ m.score = 50
          /\ m.name = "Dune" /\ m.overview = "o1"

\* The create or update request of c ends with the invalid-input error.
EndsInvalid(c) ==
    /\ resp'.client = c /\ resp'.status = 400
    /\ resp'.op \in {"create", "update"}
    /\ ~InFlight(c)'

\* C8: a create or update request that ends with 400 leaves the committed
\* store as it was: the step that fails changes nothing, no Movie row and no
\* Country/Genre/Actor/Language row the failed create added remains, and the
\* failed update's row is as it was, wherever in the try block it failed.
C8_InvalidInputRollsBack ==
    [][\A c \in Clients :
        EndsInvalid(c) =>
           /\ movies' = movies /\ tables' = tables
           /\ (InFlight(c) /\ req[c].op = "create") =>
                 /\ \A p \in req[c].loc.created : p[2] \notin tables'[p[1]]
                 /\ req[c].loc.movie # None =>
                       MovieById(Value(req[c].loc.movie).id)' = {}
      ]_vars

\* No table holds two rows with the same key.
ReferenceKeysUnique ==
    \A k \in Kinds : \A r, t \in tables[k] : r.key = t.key => r = t

\* C9: under every interleaving of concurrent creates that reference the
\* same not-yet-existing country code or genre/actor/language name, the store
\* never holds two Country, Genre, Actor or Language rows with the same key:
\* the create whose insert meets a row another request committed ends with
\* 400 and nothing of it is persisted.
C9_GetOrCreateRace ==
    [][/\ ReferenceKeysUnique'
       /\ \A c \in Clients :
            /\ (/\ StepOf(c, "create", "flush")
                /\ \E r \in tables[req[c].loc.kind] :
                      r.key = Referenced(req[c].data, req[c].loc.kind)[req[c].loc.i])
               => (EndsInvalid(c) /\ movies' = movies /\ tables' = tables)
            /\ (/\ StepOf(c, "create", "commit")
                /\ \E p \in req[c].loc.created :
                      \E r \in tables[p[1]] : r.key = p[2].key)
               => (EndsInvalid(c) /\ movies' = movies /\ tables' = tables)
      ]_vars

\* A create lost the race for a country another create committed first: it
\* ended with 400 though no movie has its name and date.
C9_Witness ==
    /\ resp.op = "create" /\ resp.status = 400 /\ resp.exc = "IntegrityError"
    /\ ~resp.alone
    /\ \E r \in tables["country"] : r.key = resp.data.country
    /\ \A m \in movies :
          ~(m.name = resp.data.name /\ Some(m.date) = strptime(resp.data.date))
    /\ ReferenceKeysUnique

\* C10: in every successful list response the number of returned movies is
\* min(per_page, total_items - (page-1)*per_page), also when creates or
\* deletes of other clients commit between the count and the page query.
C10_ListMetadataAgrees ==
    (resp.op = "list" /\ resp.status = 200) =>
        Len(resp.body.movies) =
            Min2(resp.data.per_page,
                 resp.body.total_items - (resp.data.page - 1) * resp.data.per_page)

====
